---- MODULE Spec2Model ----
(***************************************************************************)
(* A model of examples/simple-python/app/__init__.py: a Flask application  *)
(* with three GET routes (/health, /api/info, /api/hello), a 404 and a 500 *)
(* error handler, and a listening port resolved from the environment when  *)
(* the module is loaded.                                                   *)
(*                                                                         *)
(* The handlers are translated from the source.  What the source hands to  *)
(* Flask/Werkzeug (route registration with methods=['GET'], errorhandler   *)
(* registration, request.args, app.run(debug=True), config['TESTING']) is  *)
(* modelled by the documented behaviour of the framework for exactly those *)
(* calls; each such definition names the source line that makes the call.  *)
(***************************************************************************)
EXTENDS Integers, Sequences, FiniteSets, TLC

VARIABLES
    phase,         \* "unstarted" | "serving" | "crashed" (module load)
    launch,        \* how the module is run: "script" | "pytest" | "import"
    environ,       \* os.environ, restricted to PORT and DEBUG
    PORT,          \* the module-level PORT (line 11)
    bootPort,      \* history: environ.PORT as it was when the module loaded
    now,           \* the system's UTC wall clock, in microsecond ticks
    req,           \* the request being handled (NoReq when idle)
    resp,          \* its response (NoResp when idle)
    lastHealthTs,  \* history: the timestamp of the latest completed GET
                   \*   /health and the clock reading it was taken at
    sawFault       \* history: an earlier request ended in a fault

vars == <<phase, launch, environ, PORT, bootPort, now, req, resp,
          lastHealthTs, sawFault>>

----------------------------------------------------------------------------
(* Bounds *)

MaxSegs == 3        \* path segments per request path
MaxNameLen == 1     \* characters in a supplied `name`
MaxPortLen == 1     \* characters in the PORT environment string
MaxClock == 2       \* clock ticks explored
UsecPerSec == 2     \* microsecond ticks per second (stands for 10^6)

----------------------------------------------------------------------------
(* Program constants *)

DefaultPort == 3000

----------------------------------------------------------------------------
(* Environment: os.environ.get(key) is None (set = FALSE) or a string.     *)

Unset == [set |-> FALSE, val |-> <<>>]
EnvStr(s) == [set |-> TRUE, val |-> s]

RECURSIVE SeqsUpTo(_, _)
SeqsUpTo(S, n) ==
    IF n = 0 THEN {<<>>}
    ELSE LET shorter == SeqsUpTo(S, n - 1)
         IN  shorter \cup {Append(s, c) : s \in shorter, c \in S}

PortChars == {"8", "0", "x"}
PortValues == {Unset} \cup {EnvStr(s) : s \in SeqsUpTo(PortChars, MaxPortLen)}
DebugValues == {Unset, EnvStr(<<>>), EnvStr(<<"1">>)}

Truthy(v) == v.set /\ v.val # <<>>

----------------------------------------------------------------------------
(* Module load: PORT = int(os.environ.get('PORT', 3000))                   *)

IsDigit(c) == c \in {"0", "8"}

DigitVal(c) == IF c = "8" THEN 8 ELSE 0

\* int(str) accepts a non-empty run of decimal digits (of the characters
\* modelled) and raises ValueError on anything else, the empty string included.
IsIntLiteral(s) == Len(s) > 0 /\ \A i \in 1..Len(s) : IsDigit(s[i])

RECURSIVE IntOf(_)
IntOf(s) ==
    IF s = <<>> THEN 0
    ELSE 10 * IntOf(SubSeq(s, 1, Len(s) - 1)) + DigitVal(s[Len(s)])

\* Faulty variant: a parse failure falls back to the default instead of raising
ResolvePortLenient(v) ==
    IF ~v.set THEN [ok |-> TRUE, port |-> DefaultPort]
    ELSE IF IsIntLiteral(v.val) THEN [ok |-> TRUE, port |-> IntOf(v.val)]
    ELSE [ok |-> TRUE, port |-> DefaultPort]

\* os.environ.get('PORT', 3000) is the integer 3000 when PORT is unset and
\* the variable's string otherwise; int() of the string may raise ValueError.
ResolvePort(v) ==
    IF ~v.set THEN [ok |-> TRUE, port |-> DefaultPort]
    ELSE IF IsIntLiteral(v.val) THEN [ok |-> TRUE, port |-> IntOf(v.val)]
    ELSE [ok |-> FALSE, port |-> 0]

\* the module-level name PORT: unbound until line 11 has run
Unbound == [defined |-> FALSE, value |-> 0]
Bound(n) == [defined |-> TRUE, value |-> n]

----------------------------------------------------------------------------
(* Requests.  A path is the list of its segments: "/api/info" is           *)
(* <<"api", "info">>, "/" is <<"">>, "/api//info" is <<"api", "", "info">> *)
(* and "/health/" is <<"health", "">>.  Paths that begin with two slashes  *)
(* are left out: servers differ on what they hand the application then.    *)

Segments == {"", "health", "api", "info", "hello"}
Paths ==
    {p \in SeqsUpTo(Segments, MaxSegs) : p # <<>> /\ (Len(p) > 1 => p[1] # "")}

\* The methods requests are drawn from (HEAD is served as GET is).
Methods == {"GET", "OPTIONS", "POST"}

HealthPath == <<"health">>
InfoPath == <<"api", "info">>
HelloPath == <<"api", "hello">>
KnownPaths == {HealthPath, InfoPath, HelloPath}

\* The path as the string the router sees, one token per slash and per
\* non-empty segment.
RECURSIVE PathChars(_)
PathChars(p) ==
    IF p = <<>> THEN <<>>
    ELSE <<"/">> \o (IF Head(p) = "" THEN <<>> ELSE <<Head(p)>>)
                 \o PathChars(Tail(p))

\* Werkzeug's merge_slashes (on by default for every rule): each pair of
\* adjacent slashes becomes one, scanning left to right.
RECURSIVE MergeSlashes(_)
MergeSlashes(c) ==
    IF Len(c) < 2 THEN c
    ELSE IF c[1] = "/" /\ c[2] = "/"
         THEN <<"/">> \o MergeSlashes(SubSeq(c, 3, Len(c)))
         ELSE <<c[1]>> \o MergeSlashes(Tail(c))

\* methods=['GET']: Flask adds HEAD and OPTIONS to every GET rule.
GetMethods == {"GET", "HEAD", "OPTIONS"}

\* The three @app.route registrations.
UrlMap ==
    { [rule |-> PathChars(HealthPath), endpoint |-> "health", methods |-> GetMethods],
      [rule |-> PathChars(InfoPath),   endpoint |-> "info",   methods |-> GetMethods],
      [rule |-> PathChars(HelloPath),  endpoint |-> "hello",  methods |-> GetMethods] }

RulesAt(c) == {r \in UrlMap : r.rule = c}

\* Faulty variant: a disallowed method is reported as no route at all
MatchRequestNoMethodCheck(method, path) ==
    LET c == PathChars(path)
        exact == {r \in RulesAt(c) : method \in r.methods}
    IN  IF exact # {}
        THEN [kind |-> "endpoint", endpoint |-> (CHOOSE r \in exact : TRUE).endpoint]
        ELSE [kind |-> "NotFound", endpoint |-> ""]

\* Faulty variant: the router matches a path by its first segment only
MatchRequestPrefix(method, path) ==
    LET hit == {r \in UrlMap : r.rule[2] = Head(path) /\ method \in r.methods}
    IN  IF hit # {}
        THEN [kind |-> "endpoint", endpoint |-> (CHOOSE r \in hit : TRUE).endpoint]
        ELSE [kind |-> "NotFound", endpoint |-> ""]

\* URL matching: the rule whose path equals the request path and whose
\* methods hold the request method; failing that, a rule that matches once
\* the slashes are merged redirects (308) to the merged path; failing that,
\* 405 when some rule matched the path but not the method, else 404.
MatchRequest(method, path) ==
    LET c == PathChars(path)
        m == MergeSlashes(c)
        exact == {r \in RulesAt(c) : method \in r.methods}
        merged == {r \in RulesAt(m) : method \in r.methods}
        haveMatchFor == UNION {r.methods : r \in RulesAt(c) \cup RulesAt(m)}
    IN  IF exact # {}
        THEN [kind |-> "endpoint", endpoint |-> (CHOOSE r \in exact : TRUE).endpoint]
        ELSE IF merged # {}
        THEN [kind |-> "RequestRedirect", endpoint |-> ""]
        ELSE IF haveMatchFor # {}
        THEN [kind |-> "MethodNotAllowed", endpoint |-> ""]
        ELSE [kind |-> "NotFound", endpoint |-> ""]

----------------------------------------------------------------------------
(* Query string of /api/hello.  The client supplies a name and puts one of *)
(* its URL encodings on the wire; the server sees only the encoded form.   *)

NameChars == {"C", "/", " "}
Names == SeqsUpTo(NameChars, MaxNameLen)

\* The encodings a client may send for one character of a query value.
Quotings(ch) ==
    CASE ch = "/" -> {"/", "%2F"}
      [] ch = " " -> {"+", "%20"}
      [] OTHER    -> {ch}

RECURSIVE Encodings(_)
Encodings(name) ==
    IF name = <<>> THEN {<<>>}
    ELSE {<<q>> \o rest : q \in Quotings(Head(name)), rest \in Encodings(Tail(name))}

NoName == [present |-> FALSE, name |-> <<>>]
NoQuery == [present |-> FALSE, raw |-> <<>>]

\* Faulty variant: the query value is used as it came over the wire
UnquoteRaw(tok) == tok

\* Werkzeug decodes a query value token by token: percent escapes to the
\* character they name, '+' to a space.
Unquote(tok) ==
    CASE tok = "%2F" -> "/"
      [] tok = "%20" -> " "
      [] tok = "+"   -> " "
      [] OTHER       -> tok

RECURSIVE UrlDecode(_)
UrlDecode(raw) ==
    IF raw = <<>> THEN <<>> ELSE <<Unquote(Head(raw))>> \o UrlDecode(Tail(raw))

\* request.args.get('name', 'World')
ArgsGetName(query) ==
    IF query.present THEN UrlDecode(query.raw) ELSE <<"World">>

----------------------------------------------------------------------------
(* The clock and datetime.utcnow().isoformat()                             *)

UtcNow == [sec |-> now \div UsecPerSec, usec |-> now % UsecPerSec]

\* isoformat() prints the seconds and, only when it is not zero, the
\* microsecond field after them.
IsoFormat(d) == IF d.usec = 0 THEN <<d.sec>> ELSE <<d.sec, d.usec>>

\* Order of two isoformat() strings (fields are zero-padded, so the order of
\* the strings is the order of the fields; a string that is a prefix of
\* another sorts first).
IsoLeq(a, b) ==
    \/ a[1] < b[1]
    \/ /\ a[1] = b[1]
       /\ \/ Len(a) = 1
          \/ Len(b) = 2 /\ a[2] <= b[2]

NeverSeen == [seen |-> FALSE, ts |-> <<0>>, at |-> 0]

----------------------------------------------------------------------------
(* Handlers: each returns the pair (JSON body, status) of the source.      *)

NoBody == [none |-> TRUE]

\* Faulty variant: the timestamp is computed once and served from then on
healthCached ==
    [body |-> [status |-> "OK",
               timestamp |-> IF lastHealthTs.seen THEN lastHealthTs.ts
                             ELSE IsoFormat(UtcNow),
               status_code |-> 200],
     status |-> 200]

\* Faulty variant: the health check reports a degraded service
healthDown ==
    [body |-> [status |-> "DOWN", timestamp |-> IsoFormat(UtcNow), status_code |-> 503],
     status |-> 503]

health ==
    [body |-> [status |-> "OK", timestamp |-> IsoFormat(UtcNow), status_code |-> 200],
     status |-> 200]

\* Faulty variant: the info body reports the process configuration
infoWithDebug ==
    [body |-> [name |-> "Simple Python Example",
               version |-> "1.0.0",
               description |-> "Example project for CI/CD Toolkit",
               language |-> "Python",
               debug |-> Truthy(environ.DEBUG)],
     status |-> 200]

info ==
    [body |-> [name |-> "Simple Python Example",
               version |-> "1.0.0",
               description |-> "Example project for CI/CD Toolkit",
               language |-> "Python"],
     status |-> 200]

hello(query) ==
    LET name == ArgsGetName(query)
    IN  [body |-> [message |-> <<"Hello, ">> \o name \o <<"!">>], status |-> 200]

\* Faulty variant: the handler echoes the route it was looking for
not_foundNoEcho(path) ==
    [body |-> [error |-> "Not Found", path |-> <<"unknown">>], status |-> 404]

not_found(path) ==
    [body |-> [error |-> "Not Found", path |-> path], status |-> 404]

----------------------------------------------------------------------------
(* Faults and the 500 handler                                              *)

\* Descriptions of the faults a view function may raise ("" is no fault).
Faults == {"boom", "bang"}

\* app.run(debug=True) sets app.debug; the test fixture sets TESTING.
Debug == launch = "script"
Testing == launch = "pytest"

\* Flask hands a 500 handler an InternalServerError that wraps the unhandled
\* exception (as original_exception).
InternalServerError(fault) ==
    [name |-> "Internal Server Error", code |-> 500, original_exception |-> fault]

\* str() of an HTTP exception is "<code> <name>: <description>", the
\* description being the exception class's fixed text.
Str(error) == "500 Internal Server Error: The server encountered an internal error and was unable to complete your request. Either the server is overloaded or there is an error in the application."

internal_error(error) ==
    [body |-> [error |-> "Internal Server Error",
               message |-> IF Truthy(environ.DEBUG) THEN Str(error)
                           ELSE "An error occurred"],
     status |-> 500]

Reply(outcome, r) ==
    [outcome |-> outcome, sent |-> TRUE, status |-> r.status, body |-> r.body]

\* Faulty variant: the registered 500 handler answers in every configuration
HandleExceptionNoPropagate(fault) ==
    Reply("internal_error", internal_error(InternalServerError(fault)))

\* An unhandled exception in a view: with debug or TESTING on, Flask
\* re-raises it instead of calling the 500 handler.  Under app.run(debug=True)
\* the Werkzeug debugger answers with its traceback page; under the test
\* client the exception reaches the caller and there is no response.
HandleException(fault) ==
    IF Debug \/ Testing
    THEN IF Debug
         THEN [outcome |-> "debugger", sent |-> TRUE, status |-> 500,
               body |-> [traceback |-> fault]]
         ELSE [outcome |-> "raised", sent |-> FALSE, status |-> 0,
               body |-> [exception |-> fault]]
    ELSE Reply("internal_error", internal_error(InternalServerError(fault)))

----------------------------------------------------------------------------
(* Dispatch of one request                                                 *)

NoReq == [method |-> "", path |-> <<>>, supplied |-> NoName, query |-> NoQuery,
          fault |-> ""]
NoResp == [outcome |-> "", sent |-> FALSE, status |-> 0, body |-> NoBody]

\* The view function registered for the endpoint.
ViewResult(endpoint, r) ==
    CASE endpoint = "health" -> Reply("health", health)
      [] endpoint = "info"   -> Reply("info", info)
      [] endpoint = "hello"  -> Reply("hello", hello(r.query))

Dispatch(r) ==
    LET m == MatchRequest(r.method, r.path)
    IN  CASE m.kind = "NotFound" ->
               Reply("not_found", not_found(r.path))
          [] m.kind = "MethodNotAllowed" ->
               [outcome |-> "method_not_allowed", sent |-> TRUE, status |-> 405,
                body |-> [html |-> "405 Method Not Allowed"]]
          [] m.kind = "RequestRedirect" ->
               [outcome |-> "redirect", sent |-> TRUE, status |-> 308,
                body |-> [location |-> MergeSlashes(PathChars(r.path))]]
          [] m.kind = "endpoint" ->
               IF r.method = "OPTIONS"
               THEN [outcome |-> "options", sent |-> TRUE, status |-> 200,
                     body |-> NoBody]
               ELSE IF r.fault # ""
               THEN HandleException(r.fault)
               ELSE ViewResult(m.endpoint, r)

----------------------------------------------------------------------------
(* Actions                                                                 *)

Launches == {"script", "pytest", "import"}

\* Lines 10-11 run when the module is loaded; a ValueError from int() ends
\* the load.
LoadModule ==
    /\ phase = "unstarted"
    /\ LET p == ResolvePort(environ.PORT)
       IN  IF p.ok
           THEN phase' = "serving" /\ PORT' = Bound(p.port)
           ELSE phase' = "crashed" /\ PORT' = Unbound
    /\ bootPort' = environ.PORT
    /\ UNCHANGED <<launch, environ, now, req, resp, lastHealthTs,
                   sawFault>>

\* Only hello reads the query string, and only a view function can raise:
\* the other requests are drawn without a query and without a fault.
QueriesFor(path) ==
    IF path = HelloPath
    THEN {<<NoName, NoQuery>>} \cup
         {<<[present |-> TRUE, name |-> n], [present |-> TRUE, raw |-> e]>> :
             n \in Names, e \in UNION {Encodings(x) : x \in Names}}
    ELSE {<<NoName, NoQuery>>}

FaultsFor(method, path) ==
    IF MatchRequest(method, path).kind = "endpoint" /\ method # "OPTIONS"
    THEN {""} \cup Faults
    ELSE {""}

\* One request, from its arrival to its response.
Serve ==
    /\ phase = "serving"
    /\ req = NoReq
    /\ \E method \in Methods, path \in Paths :
       \E q \in QueriesFor(path), f \in FaultsFor(method, path) :
          /\ q[2].present => q[2].raw \in Encodings(q[1].name)
          /\ LET r == [method |-> method, path |-> path, supplied |-> q[1],
                       query |-> q[2], fault |-> f]
                 out == Dispatch(r)
             IN  req' = r /\ resp' = out
    /\ UNCHANGED <<phase, launch, environ, PORT, bootPort, now, lastHealthTs,
                   sawFault>>

\* The response has been sent; request and response are dropped.
Complete ==
    /\ req # NoReq
    /\ req' = NoReq
    /\ resp' = NoResp
    /\ sawFault' = (sawFault \/ req.fault # "")
    /\ lastHealthTs' =
           IF resp.outcome = "health" /\ req.method = "GET"
           THEN [seen |-> TRUE, ts |-> resp.body.timestamp, at |-> now]
           ELSE lastHealthTs
    /\ UNCHANGED <<phase, launch, environ, PORT, bootPort, now>>

\* os.environ is changed while the process runs.
SetDebugEnv ==
    /\ phase = "serving"
    /\ req = NoReq
    /\ \E v \in DebugValues \ {environ.DEBUG} :
          environ' = [environ EXCEPT !.DEBUG = v]
    /\ UNCHANGED <<phase, launch, PORT, bootPort, now, req, resp, lastHealthTs,
                   sawFault>>

SetPortEnv ==
    /\ phase # "unstarted"
    /\ req = NoReq
    /\ \E v \in PortValues \ {environ.PORT} :
          environ' = [environ EXCEPT !.PORT = v]
    /\ UNCHANGED <<phase, launch, PORT, bootPort, now, req, resp, lastHealthTs,
                   sawFault>>

\* The wall clock advances ...
Tick ==
    /\ req = NoReq
    /\ now < MaxClock
    /\ now' = now + 1
    /\ UNCHANGED <<phase, launch, environ, PORT, bootPort, req, resp, lastHealthTs,
                   sawFault>>

\* ... and may be set back (a clock correction).
ClockStepBack ==
    /\ req = NoReq
    /\ now > 0
    /\ \E t \in 0..(now - 1) : now' = t
    /\ UNCHANGED <<phase, launch, environ, PORT, bootPort, req, resp, lastHealthTs,
                   sawFault>>

----------------------------------------------------------------------------
(* Specifications                                                          *)

\* The loaded application (PORT unset in the environment), serving.
Init ==
    /\ phase = "serving"
    /\ launch \in Launches
    /\ environ \in {[PORT |-> Unset, DEBUG |-> d] : d \in DebugValues}
    /\ PORT = Bound(DefaultPort)
    /\ bootPort = Unset
    /\ now = 0
    /\ req = NoReq
    /\ resp = NoResp
    /\ lastHealthTs = NeverSeen
    /\ sawFault = FALSE

Next ==
    \/ Serve
    \/ Complete
    \/ SetDebugEnv
    \/ Tick
    \/ ClockStepBack

Spec == Init /\ [][Next]_vars

\* The process from before the module is loaded, over the PORT strings
\* (imported without debug or TESTING: the load is the same however run).
InitStartup ==
    /\ phase = "unstarted"
    /\ launch = "import"
    /\ environ \in {[PORT |-> v, DEBUG |-> Unset] : v \in PortValues}
    /\ PORT = Unbound
    /\ bootPort = Unset
    /\ now = 0
    /\ req = NoReq
    /\ resp = NoResp
    /\ lastHealthTs = NeverSeen
    /\ sawFault = FALSE

NextStartup ==
    \/ LoadModule
    \/ SetPortEnv
    \/ Serve
    \/ Complete

SpecStartup == InitStartup /\ [][NextStartup]_vars

----------------------------------------------------------------------------
(* Properties                                                              *)

Handled == req # NoReq

\* Merging the doubled slashes of the path gives the path of a route.
MergesToRoute(path) == MergeSlashes(PathChars(path)) \in {r.rule : r \in UrlMap}

NotFoundReply ==
    /\ resp.outcome = "not_found"
    /\ resp.status = 404
    /\ resp.body.error = "Not Found"
    /\ resp.body.path = req.path

Greeting(supplied) ==
    <<"Hello, ">> \o (IF supplied.present THEN supplied.name ELSE <<"World">>)
                  \o <<"!">>

\* C1: a GET of /api/hello in which no fault is raised is answered 200 with
\* the body {message: "Hello, N!"}, N being the name the client supplied
\* (whatever its encoding on the wire, the empty name included) and "World"
\* only when the request has no name parameter.
C1_HelloGreetsSuppliedName ==
    (req.method = "GET" /\ req.path = HelloPath /\ req.fault = "") =>
        /\ resp.outcome = "hello"
        /\ resp.status = 200
        /\ resp.body = [message |-> Greeting(req.supplied)]

\* C1 witness: the name "/" sent percent-encoded and greeted decoded.
C1_Witness ==
    /\ req.method = "GET" /\ req.path = HelloPath /\ req.fault = ""
    /\ req.supplied = [present |-> TRUE, name |-> <<"/">>]
    /\ req.query.raw = <<"%2F">>
    /\ resp.body.message = <<"Hello, ", "/", "!">>

\* C2 as stated: every request whose path is not one of the three routes is
\* answered by the not-found handler: 404, error "Not Found", the path echoed.
C2_Original ==
    (Handled /\ req.path \notin KnownPaths) => NotFoundReply

\* C2 as amended: every request whose path is not one of the three routes,
\* and does not become one of them when its doubled slashes are merged, is
\* answered by the not-found handler: 404, error "Not Found", the path echoed.
C2_NotFoundUnlessMergeable ==
    (Handled /\ req.path \notin KnownPaths /\ ~MergesToRoute(req.path)) =>
        NotFoundReply

\* C2 witness: a POST to /health/ (trailing slash) answered 404 with its path.
C2_Witness ==
    /\ req.method = "POST"
    /\ req.path = <<"health", "">>
    /\ resp.status = 404
    /\ resp.body = [error |-> "Not Found", path |-> <<"health", "">>]

\* What Flask answers for a GET route without being asked to: OPTIONS, and a
\* path that matches once its doubled slashes are merged.
FrameworkExtra ==
    \/ req.method = "OPTIONS"
    \/ req.path \notin KnownPaths /\ MergesToRoute(req.path)

\* C3 as stated: every request that is not a GET of one of the three routes,
\* a non-GET request to one of them included, is answered 404 with the
\* not-found body.  (Stated here for the requests outside FrameworkExtra, so
\* that what refutes it is the case the claim names.)
C3_Original ==
    (Handled /\ ~FrameworkExtra /\ ~(req.method = "GET" /\ req.path \in KnownPaths))
        => NotFoundReply

\* C3 as amended: a request whose path matches no route (merged or not) is
\* answered 404 with the not-found body, whatever its method; a request to
\* one of the three routes with a method other than GET, HEAD and OPTIONS is
\* answered 405 by the framework and the not-found handler does not run.
C3_UnmatchedPath404WrongMethod405 ==
    /\ (Handled /\ req.path \notin KnownPaths /\ ~MergesToRoute(req.path)) =>
           /\ NotFoundReply
           /\ "error" \in DOMAIN resp.body /\ "path" \in DOMAIN resp.body
    /\ (Handled /\ req.path \in KnownPaths
            /\ req.method \notin {"GET", "HEAD", "OPTIONS"}) =>
           /\ resp.outcome = "method_not_allowed"
           /\ resp.status = 405
           /\ "error" \notin DOMAIN resp.body

\* C3 witness: POST /api/info answered 405.
C3_Witness ==
    /\ req.method = "POST"
    /\ req.path = InfoPath
    /\ resp.status = 405

ErrorReply ==
    /\ resp.outcome = "internal_error"
    /\ resp.sent
    /\ resp.status = 500
    /\ resp.body.error = "Internal Server Error"
    /\ "message" \in DOMAIN resp.body

\* C4 as stated: whenever a view raises a fault, the 500 handler runs and the
\* client receives status 500 with error "Internal Server Error" and a
\* message, in every configuration (app.run(debug=True) and the test
\* configuration included), and the process keeps serving.
C4_Original ==
    (Handled /\ req.fault # "") => (ErrorReply /\ phase = "serving")

\* C4 as amended: whenever a view raises a fault and neither debug nor
\* TESTING is on, the 500 handler runs and the client receives status 500
\* with error "Internal Server Error" and a message.  Under
\* app.run(debug=True) the fault is re-raised to the debugger, which answers
\* 500 with its traceback page; under the test configuration it is re-raised
\* to the caller and there is no response; the 500 handler runs in neither.
\* In every case the process keeps serving.
C4_ErrorReplyUnlessPropagated ==
    (Handled /\ req.fault # "") =>
        /\ phase = "serving"
        /\ launch = "import" => ErrorReply
        /\ launch = "script" =>
              resp.outcome = "debugger" /\ resp.status = 500
                  /\ "error" \notin DOMAIN resp.body
        /\ launch = "pytest" => resp.outcome = "raised" /\ ~resp.sent

\* C4 witness: a fault answered by the 500 handler, after an earlier fault.
C4_Witness ==
    /\ sawFault
    /\ launch = "import"
    /\ req.fault = "boom"
    /\ resp.outcome = "internal_error"
    /\ resp.status = 500

\* C5 as stated: in every 500 response the message is the description of the
\* underlying fault when DEBUG is truthy in the environment at the time the
\* handler runs, and "An error occurred" otherwise.
C5_Original ==
    resp.outcome = "internal_error" =>
        resp.body.message = (IF Truthy(environ.DEBUG) THEN req.fault
                             ELSE "An error occurred")

\* C6 as stated: once the module is loaded the process is up and PORT is the
\* integer value of the PORT variable it was started with when that is a
\* numeric string, and 3000 when it was unset or not numeric; PORT keeps that
\* value whatever happens afterwards.
C6_Original ==
    phase # "unstarted" =>
        /\ phase = "serving"
        /\ PORT = Bound(IF bootPort.set /\ IsIntLiteral(bootPort.val)
                        THEN IntOf(bootPort.val) ELSE 3000)

\* C6 as amended: PORT is resolved once, when the module is loaded: it is
\* 3000 when the PORT variable is unset and the integer value of the
\* variable when that is a numeric string; when the variable is set to
\* anything else (the empty string included) the load fails with a
\* ValueError and the process never serves.  Later changes of the
\* environment, and requests, leave the resolved value alone.
C6_PortResolvedAtLoadOrLoadFails ==
    phase # "unstarted" =>
        IF ~bootPort.set
        THEN phase = "serving" /\ PORT = Bound(3000)
        ELSE IF bootPort.val # <<>> /\ \A i \in DOMAIN bootPort.val :
                                          bootPort.val[i] \in {"0", "8"}
        THEN phase = "serving" /\ PORT.defined
                 /\ PORT.value = IntOf(bootPort.val)
                 /\ (bootPort.val = <<"8">> => PORT.value = 8)
                 /\ (bootPort.val = <<"0">> => PORT.value = 0)
                 /\ (bootPort.val = <<"8", "0">> => PORT.value = 80)
                 /\ (bootPort.val = <<"0", "8">> => PORT.value = 8)
        ELSE phase = "crashed" /\ PORT = Unbound

\* C6 witness: loaded with PORT=8, the variable since changed, a request
\* answered, and the resolved port still 8.
C6_Witness ==
    /\ bootPort = EnvStr(<<"8">>)
    /\ environ.PORT = EnvStr(<<"x">>)
    /\ PORT = Bound(8)
    /\ resp.status = 200

InfoBody ==
    [name |-> "Simple Python Example", version |-> "1.0.0",
     description |-> "Example project for CI/CD Toolkit", language |-> "Python"]

\* C7: a GET of /api/info in which no fault is raised is answered 200 with a
\* body of exactly the fields name, version, description and language, name
\* "Simple Python Example", version "1.0.0", description and language not
\* empty; the body is the same one on every call, whatever requests (faulting
\* ones included) and changes of the environment came before.
C7_InfoStatic ==
    (req.method = "GET" /\ req.path = InfoPath /\ req.fault = "") =>
        /\ resp.outcome = "info"
        /\ resp.status = 200
        /\ DOMAIN resp.body = {"name", "version", "description", "language"}
        /\ resp.body.name = "Simple Python Example"
        /\ resp.body.version = "1.0.0"
        /\ resp.body.description # "" /\ resp.body.language # ""
        /\ resp.body = InfoBody

\* C7 witness: /api/info answered after a faulting request, with DEBUG set
\* and the clock moved.
C7_Witness ==
    /\ req.method = "GET" /\ req.path = InfoPath
    /\ sawFault
    /\ Truthy(environ.DEBUG)
    /\ now > 0
    /\ resp.status = 200
    /\ resp.body.version = "1.0.0"

\* C8: a GET of /health in which no fault is raised is answered 200 with a
\* body holding status "OK", status_code 200 and a timestamp; the handler has
\* no other result.
C8_HealthOk ==
    (req.method = "GET" /\ req.path = HealthPath /\ req.fault = "") =>
        /\ resp.outcome = "health"
        /\ resp.status = 200
        /\ resp.body.status = "OK"
        /\ resp.body.status_code = 200
        /\ "timestamp" \in DOMAIN resp.body

\* C8 witness: /health answered 200 with status OK.
C8_Witness ==
    /\ req.method = "GET" /\ req.path = HealthPath
    /\ resp.status = 200
    /\ resp.body.status = "OK"
    /\ "timestamp" \in DOMAIN resp.body

HealthReply == req.method = "GET" /\ resp.outcome = "health"

\* C9 as stated: the timestamp of a /health response is taken from the UTC
\* clock at that call, and is never less than the timestamp of the /health
\* response before it.
C9_Original ==
    HealthReply =>
        /\ resp.body.timestamp = IsoFormat(UtcNow)
        /\ lastHealthTs.seen => IsoLeq(lastHealthTs.ts, resp.body.timestamp)

\* C9 as amended: the timestamp of a /health response is taken from the UTC
\* wall clock at that call (never reused from an earlier call); it is not
\* less than the timestamp of the /health response before it provided the
\* wall clock does not read earlier at the later call than at the earlier
\* one.  (The wall clock can be set back between two calls.)
C9_FreshAndOrderedWithClock ==
    HealthReply =>
        /\ resp.body.timestamp = IsoFormat(UtcNow)
        /\ (lastHealthTs.seen /\ lastHealthTs.at <= now) =>
               IsoLeq(lastHealthTs.ts, resp.body.timestamp)

\* C9 witness: a second /health call, made after the clock passed a second
\* boundary, carrying the later timestamp.
C9_Witness ==
    /\ HealthReply
    /\ lastHealthTs.seen
    /\ lastHealthTs.ts = <<0, 1>>
    /\ now = UsecPerSec
    /\ resp.body.timestamp = <<1>>

FiveOutcomes == {"health", "info", "hello", "not_found", "internal_error"}

\* C10 as stated: every request, of any method and path, ends in exactly one
\* of the five outcomes, with a status in {200, 404, 500}.  (Stated here for
\* the requests outside FrameworkExtra in which no fault is raised.)
C10_Original ==
    (Handled /\ ~FrameworkExtra /\ req.fault = "") =>
        (resp.outcome \in FiveOutcomes /\ resp.status \in {200, 404, 500})

\* C10 as amended: every request ends in exactly one outcome.  For a GET
\* request whose path does not become a route by merging doubled slashes,
\* and in which no fault is raised while debug or TESTING is on, it is one of
\* the five: the error response when the view raised a fault, otherwise the
\* response of the route the path names, otherwise not-found; its status is
\* 200, 404 or 500 accordingly.  Other requests may be answered by the
\* framework itself: 405 for a method a route does not accept, 200 for
\* OPTIONS, 308 for a path that merges to a route, and a re-raised fault
\* under debug or TESTING.
C10_OneOutcomePerRequest ==
    Handled =>
        /\ resp.outcome \in FiveOutcomes \cup
               {"method_not_allowed", "options", "redirect", "debugger", "raised"}
        /\ resp.outcome \in {"health", "info", "hello", "options"} => resp.status = 200
        /\ resp.outcome = "not_found" => resp.status = 404
        /\ resp.outcome = "internal_error" => resp.status = 500
        /\ resp.outcome = "method_not_allowed" => resp.status = 405
        /\ resp.outcome = "redirect" => resp.status = 308
        /\ (req.method = "GET" /\ (req.fault = "" \/ launch = "import")
                /\ (req.path \in KnownPaths \/ ~MergesToRoute(req.path))) =>
              /\ resp.outcome \in FiveOutcomes
              /\ resp.status \in {200, 404, 500}
              /\ resp.outcome =
                    (IF req.fault # "" THEN "internal_error"
                     ELSE IF req.path = HealthPath THEN "health"
                     ELSE IF req.path = InfoPath THEN "info"
                     ELSE IF req.path = HelloPath THEN "hello"
                     ELSE "not_found")

\* C10 witness: a GET of an unknown path ending in the not-found response.
C10_Witness ==
    /\ req.method = "GET"
    /\ req.path = <<"api">>
    /\ launch = "import"
    /\ resp.outcome = "not_found"
    /\ resp.status = 404

====
